---- MODULE Spec2Model ----
(***************************************************************************)
(* A model of image_analyzer.py: analyze_image(bucket_name, image_key,     *)
(* max_labels, min_confidence, aws_profile_name, region_name).             *)
(*                                                                         *)
(* The run is one sequential procedure.  Its state is the position in the  *)
(* procedure (pc), the local variables of analyze_image, the exception in  *)
(* flight, and two logs: the calls made on the external collaborators      *)
(* (Rekognition, S3, Pillow) and the messages printed.                     *)
(*                                                                         *)
(* Lengths are held in hundredths of a pixel and BoundingBox fractions in  *)
(* hundredths, so that img_width * box['Left'] is the exact product of the *)
(* two integers; the float arithmetic of the source is modelled as exact   *)
(* rational arithmetic.                                                    *)
(*                                                                         *)
(* Left out: region_name and the region messages of lines 29-52, the text  *)
(* of the label listing of lines 74-80, the right edge of the caption's    *)
(* background (it depends on the caption's length), and exceptions that do *)
(* not derive from Exception (KeyboardInterrupt, SystemExit).  Labels and  *)
(* instances always carry Name and Confidence, as the service returns.     *)
(***************************************************************************)
EXTENDS Integers, Sequences, FiniteSets, TLC

VARIABLES
    env,            \* the world outside the run: arguments, the service's answer, the stored image
    pc,             \* position in analyze_image
    labels,         \* local `labels` (line 68)
    img_size,       \* local (img_width, img_height) (line 89), <<0, 0>> before decoding
    color_index,    \* local `color_index` (line 94)
    current_color,  \* local `current_color` (line 99)
    found_boxes,    \* local `found_boxes` (line 96)
    li,             \* position of `for label in labels` (line 97), 1-based
    ii,             \* position of `for instance in label['Instances']` (line 101), 1-based
    exc,            \* the exception in flight, NoExc when none
    calls,          \* log of the calls made on the collaborators, in order
    out,            \* log of the messages printed, in order
    propagated      \* TRUE when an exception left analyze_image

vars == <<env, pc, labels, img_size, color_index, current_color, found_boxes,
          li, ii, exc, calls, out, propagated>>

----------------------------------------------------------------------------
(* Bounds of the model. *)

\* Longest Labels list of the responses of Spec.
MaxLabels == 2
\* Largest number of box-less labels between two labels of the responses of SpecPalette.
MaxGap == 14

----------------------------------------------------------------------------
(* Lengths. *)

\* n pixels, in hundredths of a pixel.
Px(n) == n * 100

----------------------------------------------------------------------------
(* The data returned by the label-detection service. *)

\* A BoundingBox: four fractions of the image dimensions, in hundredths.
Box(l, t, w, h) == [Left |-> l, Top |-> t, Width |-> w, Height |-> h]

\* An Instance; BoundingBox is read only when HasBox ('BoundingBox' in instance).
Instance(hasBox, box) == [HasBox |-> hasBox, BoundingBox |-> box]

\* A Label; an absent Instances key and an empty Instances list are both <<>>.
Label(name, instances) == [Name |-> name, Instances |-> instances]

\* The sequences over S of length at most n.
SeqsUpTo(S, n) == UNION {[1..k -> S] : k \in 0..n}

\* k copies of x.
Repeat(x, k) == [j \in 1..k |-> x]

\* The box of the responses of Spec and SpecPalette.
RunBox == Box(10, 20, 30, 40)

BoxInstance == Instance(TRUE, RunBox)
BareInstance == Instance(FALSE, Box(0, 0, 0, 0))

BoxLabel == Label("Car", <<BoxInstance>>)
BareLabel == Label("Person", <<BareInstance>>)
EmptyLabel == Label("Sky", <<>>)
MixedLabel == Label("Dog", <<BoxInstance, BareInstance, BoxInstance>>)

\* aws_profile_name: None, or a name.
NoProfile == "None"
Profiles == {NoProfile, "dev"}

\* The responses every specification draws from: they take each branch of the two loops.
BaseResponses == {<<>>, <<EmptyLabel>>, <<BareLabel>>, <<BoxLabel>>}

\* The worlds of Spec: every response of at most MaxLabels labels, each without
\* instances, with an instance without a box, with one box, or with two boxes around
\* an instance without one, run without a profile; and the base responses run with
\* a named profile.
RunLabels == {EmptyLabel, BareLabel, BoxLabel, MixedLabel}

RunEnvs ==
    {[profile |-> NoProfile, response |-> r, size |-> <<1000, 500>>] :
        r \in SeqsUpTo(RunLabels, MaxLabels)}
    \cup {[profile |-> p, response |-> r, size |-> <<1000, 500>>] :
            p \in Profiles, r \in BaseResponses}

\* The worlds of SpecPalette: two labels with up to MaxGap labels without boxes between.
PaletteResponses ==
    {<<a>> \o Repeat(f, k) \o <<b>> :
        a \in {BoxLabel, BareLabel, MixedLabel}, b \in {BoxLabel, BareLabel},
        f \in {BareLabel, EmptyLabel}, k \in 0..MaxGap}

PaletteEnvs ==
    {[profile |-> NoProfile, response |-> r, size |-> <<1000, 500>>] :
        r \in BaseResponses \cup PaletteResponses}

\* The worlds of SpecGeom: one instance, its box and the image size drawn from grids
\* that contain the boundaries of the caption policy and boxes that leave the image.
GeomSizes == {<<1000, 500>>, <<640, 480>>}
GeomLefts == {0, 10, 80}
GeomTops == {0, 2, 3, 4, 20, 50, 96, 110}
GeomWidths == {0, 30, 40}
GeomHeights == {0, 10, 40, 76, 77, 96}

GeomResponses ==
    {<<Label("Car", <<Instance(TRUE, Box(l, t, w, h))>>)>> :
        l \in GeomLefts, t \in GeomTops, w \in GeomWidths, h \in GeomHeights}

GeomEnvs ==
    {[profile |-> NoProfile, response |-> r, size |-> s] :
        r \in BaseResponses \cup GeomResponses, s \in GeomSizes}

----------------------------------------------------------------------------
(* The renderer's arithmetic (lines 93-127). *)

colors ==
    <<"red", "blue", "green", "yellow", "purple", "orange", "cyan", "magenta",
      "lime", "pink", "teal", "brown", "navy", "olive">>

\* The index taken modulo one less than the palette's length.
ColorAtShort(index) == colors[(index % (Len(colors) - 1)) + 1]

\* colors[color_index % len(colors)], the sequence being 1-based here.
ColorAt(index) == colors[(index % Len(colors)) + 1]

\* The smaller of two numbers.
Min(a, b) == IF a < b THEN a ELSE b

\* The rectangle cut to the image.
PixelRectClamped(size, box) ==
    [left |-> Min(size[1] * box.Left, size[1] * 100),
     top |-> Min(size[2] * box.Top, size[2] * 100),
     width |-> Min(size[1] * box.Width, size[1] * 100 - Min(size[1] * box.Left, size[1] * 100)),
     height |-> Min(size[2] * box.Height, size[2] * 100 - Min(size[2] * box.Top, size[2] * 100))]

\* left, top, width, height of lines 105-108, in hundredths of a pixel.
PixelRect(size, box) ==
    [left |-> size[1] * box.Left, top |-> size[2] * box.Top,
     width |-> size[1] * box.Width, height |-> size[2] * box.Height]

\* points of lines 110-116.
OutlinePoints(r) ==
    << <<r.left, r.top>>,
       <<r.left + r.width, r.top>>,
       <<r.left + r.width, r.top + r.height>>,
       <<r.left, r.top + r.height>>,
       <<r.left, r.top>> >>

\* The near-bottom test taken with >= instead of >.
TextYInclusive(top, height, img_height) ==
    IF top < Px(15)
    THEN top + height + Px(5)
    ELSE IF top + height + Px(20) >= Px(img_height)
         THEN IF top > Px(15) THEN top - Px(15) ELSE top + Px(5)
         ELSE top + Px(5)

\* The near-top test taken with <= instead of <.
TextYTopInclusive(top, height, img_height) ==
    IF top <= Px(15)
    THEN top + height + Px(5)
    ELSE IF top + height + Px(20) > Px(img_height)
         THEN IF top > Px(15) THEN top - Px(15) ELSE top + Px(5)
         ELSE top + Px(5)

\* text_y_position of lines 120-125; img_height in pixels, the rest in hundredths.
TextY(top, height, img_height) ==
    IF top < Px(15)
    THEN top + height + Px(5)
    ELSE IF top + height + Px(20) > Px(img_height)
         THEN IF top > Px(15) THEN top - Px(15) ELSE top + Px(5)
         ELSE top + Px(5)

\* text_position of line 127.
TextPosition(r, img_height) == <<r.left + Px(5), TextY(r.top, r.height, img_height)>>

\* The corner (bg_left, bg_top) and the bottom bg_bottom of the caption background,
\* lines 140-145; bg_right depends on the caption's length, which is not modelled.
CaptionBackground(pos) == <<pos[1] - Px(2), pos[2] - Px(2), pos[2] + Px(10) + Px(2)>>

----------------------------------------------------------------------------
(* Exceptions and the except clauses (lines 150-155 and 168-196). *)

NoExc == [type |-> "none", code |-> "", rek |-> FALSE]

\* An exception of class t that is no ClientError.
Exc(t) == [type |-> t, code |-> "", rek |-> FALSE]

\* A botocore ClientError: its Error.Code, and whether str(e) carries the Rekognition
\* texts that line 183 looks for.
ClientError(code, rek) == [type |-> "ClientError", code |-> code, rek |-> rek]

\* isinstance: every class modelled derives from Exception and from nothing else modelled.
IsInstance(type, class) == type = class \/ class = "Exception"

\* The outer try without its last clause.
OuterClausesNoCatchAll ==
    <<"NoCredentialsError", "PartialCredentialsError", "ClientError", "FileNotFoundError">>

\* The except clauses of the outer try, in order (lines 168, 171, 173, 192, 194).
OuterClauses ==
    <<"NoCredentialsError", "PartialCredentialsError", "ClientError",
      "FileNotFoundError", "Exception">>

\* The caption's try without its last clause.
InnerClausesImportOnly == <<"ImportError">>

\* The except clauses of the caption's try, in order (lines 150, 153).
InnerClauses == <<"ImportError", "Exception">>

\* The first clause that takes the exception, 0 when none does.
FirstMatch(clauses, e) ==
    IF \E k \in 1..Len(clauses) : IsInstance(e.type, clauses[k])
    THEN CHOOSE k \in 1..Len(clauses) :
            /\ IsInstance(e.type, clauses[k])
            /\ \A j \in 1..(k - 1) : ~IsInstance(e.type, clauses[j])
    ELSE 0

\* A printed message: what it says, and the name it carries.
Msg(tag, arg) == [tag |-> tag, arg |-> arg]

\* The profile printed as given, None included.
ProfileAsGiven(profile) == profile

\* aws_profile_name or 'default' (lines 46, 181).
ProfileOrDefault(profile) == IF profile = NoProfile THEN "default" ELSE profile

\* The message of the ClientError clause (lines 174-190).
ClientErrorMessage(e, profile) ==
    IF e.code = "NoSuchKey" THEN Msg("key_not_found", "")
    ELSE IF e.code = "NoSuchBucket" THEN Msg("bucket_not_found", "")
    ELSE IF e.code = "AccessDenied" THEN Msg("access_denied", ProfileOrDefault(profile))
    ELSE IF e.code = "InvalidS3ObjectException" \/ e.rek THEN Msg("rekognition_cannot_read", "")
    ELSE IF e.code = "ExpiredToken" THEN Msg("credentials_expired", "")
    ELSE Msg("client_error", e.code)

\* The message of the outer clause that takes e (lines 168-196).
OuterMessage(e, profile) ==
    LET k == FirstMatch(OuterClauses, e) IN
    IF k = 1 THEN Msg("no_credentials", "")
    ELSE IF k = 2 THEN Msg("partial_credentials", "")
    ELSE IF k = 3 THEN ClientErrorMessage(e, profile)
    ELSE IF k = 4 THEN Msg("font_not_found", "")
    ELSE Msg("unexpected_error", e.type)

\* The warning of the caption clause that takes e (lines 151, 154).
InnerMessage(e) ==
    IF FirstMatch(InnerClauses, e) = 1
    THEN Msg("warning_no_imagefont", "")
    ELSE Msg("warning_text_fallback", e.type)

\* What each step can raise.
SessionFaults == {Exc("Exception"), Exc("PartialCredentialsError")}

DetectFaults ==
    {Exc("NoCredentialsError"), Exc("PartialCredentialsError"), Exc("Exception")}
    \cup {ClientError(c, FALSE) :
            c \in {"AccessDenied", "InvalidS3ObjectException", "ExpiredToken", "Throttling"}}
    \cup {ClientError("Throttling", TRUE)}

FetchFaults ==
    {Exc("NoCredentialsError"), Exc("Exception")}
    \cup {ClientError(c, FALSE) :
            c \in {"NoSuchKey", "NoSuchBucket", "AccessDenied", "ExpiredToken"}}

DecodeFaults == {Exc("Exception")}
DrawFaults == {Exc("Exception"), Exc("FileNotFoundError")}
CaptionFaults == {Exc("ImportError"), Exc("Exception")}
ShowFaults == {Exc("Exception")}

----------------------------------------------------------------------------
(* The logs. *)

\* A call on a collaborator that is no drawing operation.
Ext(op, ok) ==
    [op |-> op, ok |-> ok, li |-> 0, ii |-> 0, color |-> "", at |-> <<>>, text |-> ""]

\* A drawing operation for instance i of label l: draw.line, draw.rectangle, draw.text.
Draw(op, ok, l, i, color, at, text) ==
    [op |-> op, ok |-> ok, li |-> l, ii |-> i, color |-> color, at |-> at, text |-> text]

\* Texts of a caption: f"{label['Name']} ({instance['Confidence']:.1f}%)" and f"{label['Name']}".
Styled == "name (confidence%)"
Plain == "name"

----------------------------------------------------------------------------
(* The run. *)

InitLocals ==
    /\ pc = "session"
    /\ labels = <<>>
    /\ img_size = <<0, 0>>
    /\ color_index = 0
    /\ current_color = ""
    /\ found_boxes = FALSE
    /\ li = 0
    /\ ii = 0
    /\ exc = NoExc
    /\ calls = <<>>
    /\ out = <<>>
    /\ propagated = FALSE

Init == env \in RunEnvs /\ InitLocals

InitPalette == env \in PaletteEnvs /\ InitLocals

InitGeom == env \in GeomEnvs /\ InitLocals

\* raise e inside the outer try: control goes to the except clauses.
Raise(e) == pc' = "except" /\ exc' = e

\* The instance the inner loop is at.
CurrentInstance == labels[li].Instances[ii]

\* Its pixel rectangle and the position of its caption.
CurrentRect == PixelRect(img_size, CurrentInstance.BoundingBox)
CurrentTextPosition == TextPosition(CurrentRect, img_size[2])

\* A run that forgets the early return of lines 70-72.
NoLabelsNever(ls) == FALSE

\* `not labels` of line 70.
NoLabels(ls) == ls = <<>>

\* The index advancing only for a label that has a box to draw.
HasBoxedInstance(label) ==
    \E j \in DOMAIN label.Instances : label.Instances[j].HasBox

\* label.get('Instances') of line 98: the key is present and its list is not empty.
HasInstances(label) == label.Instances # <<>>

\* 'BoundingBox' in instance of line 102.
HasBoundingBox(instance) == instance.HasBox

\* The report printed whatever was found.
NoBoxesReportAlways(found) == <<Msg("no_boxes", "")>>

\* Lines 160-161: what is printed once the loops are over.
NoBoxesReport(found) == IF found THEN <<>> ELSE <<Msg("no_boxes", "")>>

\* Lines 20-52: the session and the two clients.
CreateSession ==
    /\ pc = "session"
    /\ \/ /\ calls' = Append(calls, Ext("Session", TRUE))
          /\ out' = Append(out, Msg("using_profile", ProfileOrDefault(env.profile)))
          /\ pc' = "detect"
          /\ exc' = exc
       \/ \E e \in SessionFaults :
            /\ calls' = Append(calls, Ext("Session", FALSE))
            /\ out' = out
            /\ Raise(e)
    /\ UNCHANGED <<env, labels, img_size, color_index, current_color, found_boxes,
                   li, ii, propagated>>

\* Lines 55-80: detect_labels, the early return on an empty list, the listing.
DetectLabels ==
    /\ pc = "detect"
    /\ \/ /\ NoLabels(env.response)
          /\ calls' = Append(calls, Ext("detect_labels", TRUE))
          /\ labels' = env.response
          /\ out' = Append(out, Msg("no_labels", ""))
          /\ pc' = "done"
          /\ exc' = exc
       \/ /\ ~NoLabels(env.response)
          /\ calls' = Append(calls, Ext("detect_labels", TRUE))
          /\ labels' = env.response
          /\ out' = Append(out, Msg("labels_listed", ""))
          /\ pc' = "fetch"
          /\ exc' = exc
       \/ \E e \in DetectFaults :
            /\ calls' = Append(calls, Ext("detect_labels", FALSE))
            /\ labels' = labels
            /\ out' = out
            /\ Raise(e)
    /\ UNCHANGED <<env, img_size, color_index, current_color, found_boxes, li, ii,
                   propagated>>

\* Lines 83-86: get_object and the read of its body.
GetObject ==
    /\ pc = "fetch"
    /\ \/ /\ calls' = Append(calls, Ext("get_object", TRUE))
          /\ pc' = "decode"
          /\ exc' = exc
       \/ \E e \in FetchFaults :
            /\ calls' = Append(calls, Ext("get_object", FALSE))
            /\ Raise(e)
    /\ UNCHANGED <<env, labels, img_size, color_index, current_color, found_boxes,
                   li, ii, out, propagated>>

\* Lines 88-96: Image.open, the image's size, the renderer's initial state.
OpenImage ==
    /\ pc = "decode"
    /\ \/ /\ calls' = Append(calls, Ext("Image.open", TRUE))
          /\ img_size' = env.size
          /\ color_index' = 0
          /\ found_boxes' = FALSE
          /\ li' = 1
          /\ pc' = "label"
          /\ exc' = exc
       \/ \E e \in DecodeFaults :
            /\ calls' = Append(calls, Ext("Image.open", FALSE))
            /\ UNCHANGED <<img_size, color_index, found_boxes, li>>
            /\ Raise(e)
    /\ UNCHANGED <<env, labels, current_color, ii, out, propagated>>

\* Lines 97-100: the outer loop's head and the color of a label that has instances.
NextLabel ==
    /\ pc = "label"
    /\ \/ /\ li > Len(labels)
          /\ pc' = "show"
          /\ UNCHANGED <<color_index, current_color, li, ii>>
       \/ /\ li <= Len(labels)
          /\ HasInstances(labels[li])
          /\ current_color' = ColorAt(color_index)
          /\ color_index' = color_index + 1
          /\ ii' = 1
          /\ pc' = "instance"
          /\ li' = li
       \/ /\ li <= Len(labels)
          /\ ~HasInstances(labels[li])
          /\ li' = li + 1
          /\ pc' = pc
          /\ UNCHANGED <<color_index, current_color, ii>>
    /\ UNCHANGED <<env, labels, img_size, found_boxes, exc, calls, out, propagated>>

\* Lines 101-103: the inner loop's head and the test for a BoundingBox.
NextInstance ==
    /\ pc = "instance"
    /\ \/ /\ ii > Len(labels[li].Instances)
          /\ li' = li + 1
          /\ pc' = "label"
          /\ UNCHANGED <<ii, found_boxes>>
       \/ /\ ii <= Len(labels[li].Instances)
          /\ HasBoundingBox(CurrentInstance)
          /\ found_boxes' = TRUE
          /\ pc' = "outline"
          /\ UNCHANGED <<li, ii>>
       \/ /\ ii <= Len(labels[li].Instances)
          /\ ~HasBoundingBox(CurrentInstance)
          /\ ii' = ii + 1
          /\ pc' = pc
          /\ UNCHANGED <<li, found_boxes>>
    /\ UNCHANGED <<env, labels, img_size, color_index, current_color, exc, calls, out,
                   propagated>>

\* Lines 104-117: the pixel rectangle and the outline.
DrawOutline ==
    /\ pc = "outline"
    /\ \/ /\ calls' = Append(calls,
                Draw("line", TRUE, li, ii, current_color, OutlinePoints(CurrentRect), ""))
          /\ pc' = "caption"
          /\ exc' = exc
       \/ \E e \in DrawFaults :
            /\ calls' = Append(calls,
                  Draw("line", FALSE, li, ii, current_color, OutlinePoints(CurrentRect), ""))
            /\ Raise(e)
    /\ UNCHANGED <<env, labels, img_size, color_index, current_color, found_boxes,
                   li, ii, out, propagated>>

\* The calls of lines 147-148: the background, then the styled text.
Rectangle(ok) ==
    Draw("rectangle", ok, li, ii, "black", CaptionBackground(CurrentTextPosition), "")
StyledText(ok) == Draw("text", ok, li, ii, current_color, CurrentTextPosition, Styled)

\* The call of lines 152 and 155: the label's name alone.
PlainText(ok) == Draw("text", ok, li, ii, current_color, CurrentTextPosition, Plain)

\* Lines 119-148 and 158: the caption's position, its background and text; a failure
\* of either call is taken by the caption's own except clauses (lines 150-154).
DrawCaption ==
    /\ pc = "caption"
    /\ \/ /\ calls' = calls \o <<Rectangle(TRUE), StyledText(TRUE)>>
          /\ out' = Append(out, Msg("drew_box", current_color))
          /\ ii' = ii + 1
          /\ pc' = "instance"
          /\ exc' = exc
       \/ \E e \in CaptionFaults :
            /\ calls' = Append(calls, Rectangle(FALSE))
            /\ out' = Append(out, InnerMessage(e))
            /\ ii' = ii
            /\ pc' = IF FirstMatch(InnerClauses, e) > 0 THEN "fallback" ELSE "except"
            /\ exc' = IF FirstMatch(InnerClauses, e) > 0 THEN exc ELSE e
       \/ \E e \in CaptionFaults :
            /\ calls' = calls \o <<Rectangle(TRUE), StyledText(FALSE)>>
            /\ out' = Append(out, InnerMessage(e))
            /\ ii' = ii
            /\ pc' = IF FirstMatch(InnerClauses, e) > 0 THEN "fallback" ELSE "except"
            /\ exc' = IF FirstMatch(InnerClauses, e) > 0 THEN exc ELSE e
    /\ UNCHANGED <<env, labels, img_size, color_index, current_color, found_boxes,
                   li, propagated>>

\* Lines 150-158: the fallback text of the caption's except clauses, outside any inner try.
FallbackCaption ==
    /\ pc = "fallback"
    /\ \/ /\ calls' = Append(calls, PlainText(TRUE))
          /\ out' = Append(out, Msg("drew_box", current_color))
          /\ ii' = ii + 1
          /\ pc' = "instance"
          /\ exc' = exc
       \/ \E e \in DrawFaults :
            /\ calls' = Append(calls, PlainText(FALSE))
            /\ out' = out
            /\ ii' = ii
            /\ Raise(e)
    /\ UNCHANGED <<env, labels, img_size, color_index, current_color, found_boxes,
                   li, propagated>>

\* Lines 160-166: the report of a run that drew nothing, then the viewer.
ShowImage ==
    /\ pc = "show"
    /\ out' = out \o NoBoxesReport(found_boxes)
    /\ \/ /\ calls' = Append(calls, Ext("show", TRUE))
          /\ pc' = "done"
          /\ exc' = exc
       \/ \E e \in ShowFaults :
            /\ calls' = Append(calls, Ext("show", FALSE))
            /\ Raise(e)
    /\ UNCHANGED <<env, labels, img_size, color_index, current_color, found_boxes,
                   li, ii, propagated>>

\* Lines 168-196: the outer except clauses; an exception none of them takes leaves
\* analyze_image.
ExceptHandler ==
    /\ pc = "except"
    /\ out' = IF FirstMatch(OuterClauses, exc) > 0
              THEN Append(out, OuterMessage(exc, env.profile))
              ELSE out
    /\ propagated' = (FirstMatch(OuterClauses, exc) = 0)
    /\ pc' = "done"
    /\ UNCHANGED <<env, labels, img_size, color_index, current_color, found_boxes,
                   li, ii, exc, calls>>

Next ==
    \/ CreateSession
    \/ DetectLabels
    \/ GetObject
    \/ OpenImage
    \/ NextLabel
    \/ NextInstance
    \/ DrawOutline
    \/ DrawCaption
    \/ FallbackCaption
    \/ ShowImage
    \/ ExceptHandler

Spec == Init /\ [][Next]_vars

SpecPalette == InitPalette /\ [][Next]_vars

SpecGeom == InitGeom /\ [][Next]_vars

----------------------------------------------------------------------------
(* Reading the logs and the response. *)

\* The positions of the log.
Calls == 1..Len(calls)

\* The operations that touch the image: its fetch, its decoding, drawing, display.
ImageOps == {"get_object", "Image.open", "line", "rectangle", "text", "show"}
DrawOps == {"line", "rectangle", "text"}

\* The last call and the last message.
LastCall == calls[Len(calls)]
LastMsg == out[Len(out)]

\* A message with this tag was printed.
Printed(tag) == \E k \in 1..Len(out) : out[k].tag = tag

\* The call succeeded / failed somewhere in the run.
Succeeded(op) == \E k \in Calls : calls[k].op = op /\ calls[k].ok
Failed(op) == \E k \in Calls : calls[k].op = op /\ ~calls[k].ok

\* The instances of the response that carry a BoundingBox, as <<label, instance>> positions.
Boxed ==
    UNION {{<<l, i>> : i \in {j \in DOMAIN env.response[l].Instances :
                                 env.response[l].Instances[j].HasBox}} :
           l \in DOMAIN env.response}

\* The labels of the response with a box / with a non-empty Instances list.
LabelsWithBoxes == {l \in 1..Len(env.response) : \E p \in Boxed : p[1] = l}
LabelsWithInstances == {l \in 1..Len(env.response) : env.response[l].Instances # <<>>}

\* The positions of the log that hold the operation op for instance <<l, i>>.
DrawsOf(op, l, i) == {k \in Calls : calls[k].op = op /\ calls[k].li = l /\ calls[k].ii = i}

----------------------------------------------------------------------------
(* C1 *)

\* C1: whenever detect_labels returned an empty Labels list, the run has ended with
\* the 'no labels' message as its last output, and the log holds no get_object, no
\* decoding, no drawing operation and no display.
C1_EmptyLabelsEndTheRun ==
    (Succeeded("detect_labels") /\ env.response = <<>>) =>
        /\ pc = "done"
        /\ LastMsg = Msg("no_labels", "")
        /\ LastCall = Ext("detect_labels", TRUE)
        /\ \A k \in Calls : calls[k].op \notin ImageOps
        /\ ~propagated

\* A run that got an empty list from a successful detect_labels.
C1_Witness == Succeeded("detect_labels") /\ env.response = <<>> /\ pc = "done"

----------------------------------------------------------------------------
(* C2 *)

\* The detect_labels call of this run failed with AccessDenied.
DetectDenied ==
    /\ Failed("detect_labels")
    /\ exc.type = "ClientError"
    /\ exc.code = "AccessDenied"

\* C2: once detect_labels has failed with AccessDenied, that call stays the last one
\* of the log (no fetch, decoding, drawing or display follows), control is in the
\* except clauses or past them, and the finished run's last message is the
\* access-denied one carrying the profile's name ('default' without a profile).
C2_AccessDeniedShortCircuits ==
    DetectDenied =>
        /\ LastCall = Ext("detect_labels", FALSE)
        /\ \A k \in Calls : calls[k].op \notin ImageOps
        /\ pc \in {"except", "done"}
        /\ pc = "done" =>
             /\ LastMsg.tag = "access_denied"
             /\ LastMsg.arg = (IF env.profile = "None" THEN "default" ELSE env.profile)
             /\ ~propagated

\* A finished run with a named profile whose detect_labels was denied.
C2_Witness == DetectDenied /\ pc = "done" /\ env.profile = "dev"

----------------------------------------------------------------------------
(* C3 *)

\* Both loops are over: control is at the display or past it.
RenderingOver == pc = "show" \/ \E k \in Calls : calls[k].op = "show"

\* Every drawing operation is for an instance with a BoundingBox, and once the loops
\* are over each such instance has exactly one outline and exactly one caption text
\* that was drawn.
OneOutlineOneCaption ==
    /\ \A k \in Calls : calls[k].op \in DrawOps => <<calls[k].li, calls[k].ii>> \in Boxed
    /\ RenderingOver =>
         \A p \in Boxed :
            /\ Cardinality(DrawsOf("line", p[1], p[2])) = 1
            /\ Cardinality({k \in DrawsOf("text", p[1], p[2]) : calls[k].ok}) = 1

\* The palette entry of the label at position l when the index has advanced once
\* for each label of the set counted that comes before l.
PaletteEntry(l, counted) == colors[(Cardinality({j \in counted : j < l}) % 14) + 1]

\* Every outline and caption text of label l has the color PaletteEntry(l, counted).
ColoredBy(counted) ==
    \A k \in Calls :
        calls[k].op \in {"line", "text"} => calls[k].color = PaletteEntry(calls[k].li, counted)

----------------------------------------------------------------------------
(* C6 *)

\* The outlines at positions a and b of the log belong to labels that are adjacent
\* among the labels drawn: no outline of a label between them exists.
AdjacentDrawn(a, b) ==
    /\ calls[a].op = "line"
    /\ calls[b].op = "line"
    /\ calls[a].li < calls[b].li
    /\ ~\E c \in Calls :
          calls[c].op = "line" /\ calls[a].li < calls[c].li /\ calls[c].li < calls[b].li

\* The labels strictly between those of a and b that have instances (none has a box).
BoxlessBetween(a, b) ==
    {j \in LabelsWithInstances : calls[a].li < j /\ j < calls[b].li}

\* Every outline and caption text of one label has one color.
OneColorPerLabel ==
    \A a \in Calls, b \in Calls :
        (/\ calls[a].op \in {"line", "text"}
         /\ calls[b].op \in {"line", "text"}
         /\ calls[a].li = calls[b].li) => calls[a].color = calls[b].color

----------------------------------------------------------------------------
(* C4, C5, C9: the geometry, read from the response and the image's size. *)

\* The BoundingBox of the instance the call at position k draws for.
BoxOf(k) == env.response[calls[k].li].Instances[calls[k].ii].BoundingBox

\* The image's width and height in pixels.
W == env.size[1]
H == env.size[2]

\* The box's pixel left, top, width, height, in hundredths of a pixel.
LeftOf(k) == W * BoxOf(k).Left
TopOf(k) == H * BoxOf(k).Top
WidthOf(k) == W * BoxOf(k).Width
HeightOf(k) == H * BoxOf(k).Height

\* The call at position k draws a caption text for a box with top = 100 and
\* height = 380 pixels on an image 500 pixels tall.
BottomPlus20IsHeight(k) ==
    /\ calls[k].op = "text"
    /\ H = 500
    /\ TopOf(k) = Px(100)
    /\ HeightOf(k) = Px(380)

\* C4 as stated: that caption is at top - 15 = 85.
C4_CaptionAbove == \A k \in Calls : BottomPlus20IsHeight(k) => calls[k].at[2] = Px(85)

\* C4 amended: that caption is at the default top + 5 = 105; the near-bottom rule
\* applies only when box bottom + 20 is greater than the image height.
C4_CaptionDefault == \A k \in Calls : BottomPlus20IsHeight(k) => calls[k].at[2] = Px(105)

\* A caption text was drawn for such a box.
C4_Witness == \E k \in Calls : BottomPlus20IsHeight(k) /\ calls[k].ok

\* The vertical position the policy of C5 gives.
PolicyY(top, height, imgHeight) ==
    CASE top < Px(15) -> top + height + Px(5)
      [] top >= Px(15) /\ top + height + Px(20) > Px(imgHeight) /\ top > Px(15) -> top - Px(15)
      [] OTHER -> top + Px(5)

\* C5: every caption text, styled or plain, is at (left + 5, PolicyY); a box whose top
\* is 10 pixels on an image 500 pixels tall has its caption at top + height + 5.
C5_CaptionPolicy ==
    \A k \in Calls :
        calls[k].op = "text" =>
            /\ calls[k].at = <<LeftOf(k) + Px(5), PolicyY(TopOf(k), HeightOf(k), H)>>
            /\ (TopOf(k) = Px(10) /\ H = 500) =>
                  calls[k].at[2] = Px(10) + HeightOf(k) + Px(5)

\* A caption was drawn for a box whose top is exactly 15 pixels and whose bottom
\* plus 20 exceeds the image height: the default applies.
C5_Witness ==
    \E k \in Calls :
        /\ calls[k].op = "text"
        /\ calls[k].ok
        /\ TopOf(k) = Px(15)
        /\ TopOf(k) + HeightOf(k) + Px(20) > Px(H)
        /\ calls[k].at[2] = Px(20)

\* C9: every outline is the closed 5-point path around the pixel rectangle
\* (left*W, top*H, width*W, height*H); image 1000x500 and box (0.1, 0.2, 0.3, 0.4)
\* give the rectangle (100, 100, 300, 200); nothing is clamped: a box with
\* left + width > 1 or top + height > 1 has corners outside the image.
C9_OutlineIsLinear ==
    \A k \in Calls :
        calls[k].op = "line" =>
            /\ Len(calls[k].at) = 5
            /\ calls[k].at[5] = calls[k].at[1]
            /\ calls[k].at[1] = <<LeftOf(k), TopOf(k)>>
            /\ calls[k].at[2] = <<LeftOf(k) + WidthOf(k), TopOf(k)>>
            /\ calls[k].at[3] = <<LeftOf(k) + WidthOf(k), TopOf(k) + HeightOf(k)>>
            /\ calls[k].at[4] = <<LeftOf(k), TopOf(k) + HeightOf(k)>>
            /\ (env.size = <<1000, 500>> /\ BoxOf(k) = Box(10, 20, 30, 40)) =>
                  /\ calls[k].at[1] = <<Px(100), Px(100)>>
                  /\ calls[k].at[3] = <<Px(100) + Px(300), Px(100) + Px(200)>>
            /\ BoxOf(k).Left + BoxOf(k).Width > 100 => calls[k].at[3][1] > Px(W)
            /\ BoxOf(k).Top + BoxOf(k).Height > 100 => calls[k].at[3][2] > Px(H)

\* An outline was drawn with a corner to the right of and below the image.
C9_Witness ==
    \E k \in Calls :
        /\ calls[k].op = "line"
        /\ calls[k].ok
        /\ calls[k].at[3][1] > Px(W)
        /\ calls[k].at[3][2] > Px(H)

----------------------------------------------------------------------------
(* C7 *)

\* The messages of the outer except clauses.
ErrorTags ==
    {"no_credentials", "partial_credentials", "key_not_found", "bucket_not_found",
     "access_denied", "rekognition_cannot_read", "credentials_expired", "client_error",
     "font_not_found", "unexpected_error"}

\* The call at position k is a caption's background or styled text, and it failed.
CaptionFailure(k) ==
    /\ ~calls[k].ok
    /\ calls[k].op = "rectangle" \/ (calls[k].op = "text" /\ calls[k].text = Styled)

\* No exception leaves analyze_image, and a run ended by an exception has printed
\* one of the error messages last.
CaughtAndReported ==
    /\ ~propagated
    /\ exc # NoExc => pc \in {"except", "done"}
    /\ (pc = "done" /\ exc # NoExc) => LastMsg.tag \in ErrorTags

\* No call is made twice: the same operation for the same instance with the same text.
NoRetry ==
    \A a \in Calls, b \in Calls :
        (/\ a < b
         /\ calls[a].op = calls[b].op
         /\ calls[a].li = calls[b].li
         /\ calls[a].ii = calls[b].ii) => calls[a].text # calls[b].text

\* A failed get_object is the run's last call: no decoding, drawing or display.
FetchFailureIsTerminal ==
    Failed("get_object") =>
        /\ LastCall = Ext("get_object", FALSE)
        /\ exc # NoExc

\* C7 as stated: whatever call fails, it is the last call of the run; the failure is
\* caught and reported, nothing is retried, a failed fetch is terminal.
C7_EveryFailureEndsTheRun ==
    /\ CaughtAndReported
    /\ NoRetry
    /\ FetchFailureIsTerminal
    /\ \A k \in Calls : ~calls[k].ok => (k = Len(calls) /\ exc # NoExc)

\* C7 amended: whatever call fails other than a caption's background or styled text,
\* it is the last call of the run; the failure is caught and reported, nothing is
\* retried, a failed fetch is terminal.
C7_EveryFailureButCaptionEndsTheRun ==
    /\ CaughtAndReported
    /\ NoRetry
    /\ FetchFailureIsTerminal
    /\ \A k \in Calls :
         (~calls[k].ok /\ ~CaptionFailure(k)) => (k = Len(calls) /\ exc # NoExc)

\* A finished run whose fetch failed for a missing key, and said so.
C7_Witness ==
    /\ pc = "done"
    /\ Failed("get_object")
    /\ exc.code = "NoSuchKey"
    /\ LastMsg.tag = "key_not_found"

----------------------------------------------------------------------------
(* C8 *)

\* Every failure of the run so far is a caption failure, and there is one.
OnlyCaptionFailures ==
    /\ \E k \in Calls : CaptionFailure(k)
    /\ \A k \in Calls : ~calls[k].ok => CaptionFailure(k)

\* C8: a failed caption background or styled text is followed by the plain text of
\* the same instance in the same place and color, a warning is printed, and the
\* instance's outline is in the log as drawn; a call that failed and is followed by
\* another call is such a caption failure; a run that has finished with caption
\* failures only has displayed the image with the outline and one drawn caption
\* text of every instance that has a box.
C8_CaptionFailureFallsBack ==
    /\ \A k \in Calls :
         CaptionFailure(k) =>
            /\ \E j \in 1..(k - 1) :
                  /\ calls[j].op = "line"
                  /\ calls[j].ok
                  /\ calls[j].li = calls[k].li
                  /\ calls[j].ii = calls[k].ii
            /\ Printed("warning_text_fallback") \/ Printed("warning_no_imagefont")
            /\ k < Len(calls) =>
                  /\ calls[k + 1].op = "text"
                  /\ calls[k + 1].text = Plain
                  /\ calls[k + 1].li = calls[k].li
                  /\ calls[k + 1].ii = calls[k].ii
                  /\ calls[k + 1].at[1] = LeftOf(k) + Px(5)
                  /\ calls[k + 1].color \in {calls[j].color : j \in DrawsOf("line", calls[k].li, calls[k].ii)}
    /\ \A k \in Calls : (~calls[k].ok /\ k < Len(calls)) => CaptionFailure(k)
    /\ (pc = "done" /\ OnlyCaptionFailures) =>
         /\ LastCall = Ext("show", TRUE)
         /\ exc = NoExc
         /\ \A p \in Boxed :
               /\ \E k \in DrawsOf("line", p[1], p[2]) : calls[k].ok
               /\ Cardinality({k \in DrawsOf("text", p[1], p[2]) : calls[k].ok}) = 1

\* The image was displayed in a run where a caption failed and an instance that
\* comes later was still drawn.
C8_Witness ==
    /\ pc = "done"
    /\ Succeeded("show")
    /\ \E k \in Calls, j \in Calls :
         /\ CaptionFailure(k)
         /\ k < j
         /\ calls[j].op = "line"
         /\ calls[j].ok

----------------------------------------------------------------------------
(* C10 *)

\* Every call of the run succeeded.
NoFailure == \A k \in Calls : calls[k].ok

\* <<l1, i1>> comes before <<l2, i2>> in the order the response lists the instances.
Before(l1, i1, l2, i2) == l1 < l2 \/ (l1 = l2 /\ i1 < i2)

\* C10: a finished run with a non-empty list and no failure made its calls in this
\* order: session, detect_labels, get_object, Image.open, then for each instance
\* with a box, in the response's order, its outline, background and styled text,
\* then show; each once.  'no bounding boxes' was printed exactly when no instance
\* has a box, and in no run is it printed when some instance has one.
C10_CallsInOrderOnce ==
    /\ Printed("no_boxes") => Boxed = {}
    /\ (pc = "done" /\ env.response # <<>> /\ NoFailure) =>
         /\ Len(calls) = 5 + 3 * Cardinality(Boxed)
         /\ calls[1] = Ext("Session", TRUE)
         /\ calls[2] = Ext("detect_labels", TRUE)
         /\ calls[3] = Ext("get_object", TRUE)
         /\ calls[4] = Ext("Image.open", TRUE)
         /\ LastCall = Ext("show", TRUE)
         /\ \A n \in 1..Cardinality(Boxed) :
               /\ calls[3 * n + 2].op = "line"
               /\ calls[3 * n + 3].op = "rectangle"
               /\ calls[3 * n + 4].op = "text"
               /\ calls[3 * n + 4].text = Styled
               /\ <<calls[3 * n + 2].li, calls[3 * n + 2].ii>> \in Boxed
               /\ \A m \in {3 * n + 3, 3 * n + 4} :
                     /\ calls[m].li = calls[3 * n + 2].li
                     /\ calls[m].ii = calls[3 * n + 2].ii
               /\ n > 1 => Before(calls[3 * n - 1].li, calls[3 * n - 1].ii,
                                  calls[3 * n + 2].li, calls[3 * n + 2].ii)
         /\ Printed("no_boxes") <=> Boxed = {}
         /\ Cardinality({k \in 1..Len(out) : out[k].tag = "no_boxes"}) <= 1

\* A finished run without failure that drew boxes of two labels, one of them with
\* two boxes.
C10_Witness ==
    /\ pc = "done"
    /\ NoFailure
    /\ Succeeded("show")
    /\ Cardinality(LabelsWithBoxes) = 2
    /\ Cardinality(Boxed) >= 3

====
